---- MODULE Spec2Model ----
(***************************************************************************)
(* meowda: the filesystem-backed store of virtual environments             *)
(* (src/src/store/venv_store.rs) and the backend operations that run on it *)
(* under the store's file lock (src/src/backend.rs).                       *)
(*                                                                         *)
(* A path is the sequence of its components: /a/.meowda/venvs is           *)
(* <<"a", ".meowda", "venvs">> and the root / is <<>>.                     *)
(***************************************************************************)
EXTENDS Integers, Sequences, FiniteSets, TLC

\* Number of concurrently running meowda processes.
NProc == 2

Procs == 1..NProc

\* Environment names the callers use; ".gitignore" is the marker file's name.
Names == {"x", "y"}

\* Option values.
None == [some |-> FALSE, val |-> <<>>]

Some(v) == [some |-> TRUE, val |-> v]

----------------------------------------------------------------------------
(* Paths (std::path)                                                       *)

\* The deepest working directory of the modelled tree; its ancestors are its
\* prefixes, down to the root.
DeepDir == <<"a">>

Cwds == {SubSeq(DeepDir, 1, k) : k \in 0..Len(DeepDir)}

Join(p, c) == Append(p, c)

HasParent(p) == Len(p) > 0

Parent(p) == SubSeq(p, 1, Len(p) - 1)

\* Path::starts_with: whole components, compared as written.
StartsWith(p, base) ==
    /\ Len(base) <= Len(p)
    /\ SubSeq(p, 1, Len(base)) = base

\* Path::ends_with: whole components.
EndsWith(p, child) ==
    /\ Len(child) <= Len(p)
    /\ SubSeq(p, Len(p) - Len(child) + 1, Len(p)) = child

\* <dir>/.meowda/venvs
MeowdaVenvs(dir) == Join(Join(dir, ".meowda"), "venvs")

\* The value of a path-valued environment variable: unset, or a string that is
\* empty, absolute or relative (comps are its components as written).
VarUnset == [set |-> FALSE, abs |-> FALSE, comps |-> <<>>]

VarEmpty == [set |-> TRUE, abs |-> FALSE, comps |-> <<>>]

VarAbs(p) == [set |-> TRUE, abs |-> TRUE, comps |-> p]

VarRel(p) == [set |-> TRUE, abs |-> FALSE, comps |-> p]

\* std::env::var_os(..).filter(|s| !s.is_empty()).is_some()
VarNonEmpty(v) == v.set /\ (v.abs \/ v.comps # <<>>)

RECURSIVE DropDots(_)
DropDots(s) ==
    IF s = <<>> THEN <<>>
    ELSE IF Head(s) = "." THEN DropDots(Tail(s))
    ELSE <<Head(s)>> \o DropDots(Tail(s))

\* std::path::absolute: a relative path is joined to the working directory and
\* "." components are dropped; ".." components are kept and nothing is resolved
\* against the filesystem.
PathAbsolute(cwd, v) ==
    IF v.abs THEN DropDots(v.comps) ELSE cwd \o DropDots(v.comps)

RECURSIVE Normalize(_, _)
Normalize(done, rest) ==
    IF rest = <<>> THEN done
    ELSE IF Head(rest) = ".."
         THEN Normalize(IF done = <<>> THEN <<>> ELSE Parent(done), Tail(rest))
         ELSE Normalize(Append(done, Head(rest)), Tail(rest))

----------------------------------------------------------------------------
(* The filesystem                                                          *)

\* The platform's user-level data directory joined with "meowda".
UserStateDir == <<"data", "meowda">>

GlobalDefault == Join(UserStateDir, "venvs")

LocalLocs == {MeowdaVenvs(d) : d \in Cwds}

\* The directories a store can live in.
StoreLocs == LocalLocs \cup {GlobalDefault}

EntKinds == {"none", "dir", "file"}

\* Contents of the marker file: absent, the "*" init() writes, or text the user
\* has put there.
MarkerVals == {"none", "star", "user"}

AbsentLoc ==
    [kind |-> "absent", readable |-> TRUE, marker |-> "none",
     ents |-> [n \in Names |-> "none"]]

VARIABLES
    fs,      \* fs[loc]: the store directory at loc (kind, readable, marker, ents)
    env,     \* what the processes run in: cwd, scope and the override variables
    lock,    \* lock[f]: the processes holding the lock file f
    proc,    \* proc[p]: the operation process p runs and where it is in it
    sq       \* a lookup made on a store: its path, the name and the results

vars == <<fs, env, lock, proc, sq>>

\* Path::is_dir on the paths the program asks about: a working directory, a
\* store directory or one of its ancestors, or an environment directory.
IsDir(p) ==
    \/ p \in Cwds
    \/ \E l \in StoreLocs : fs[l].kind = "dir" /\ StartsWith(l, p)
    \/ /\ HasParent(p)
       /\ Parent(p) \in StoreLocs
       /\ fs[Parent(p)].kind = "dir"
       /\ p[Len(p)] \in Names
       /\ fs[Parent(p)].ents[p[Len(p)]] = "dir"

IsFile(p) ==
    \/ p \in StoreLocs /\ fs[p].kind = "file"
    \/ /\ HasParent(p)
       /\ Parent(p) \in StoreLocs
       /\ fs[Parent(p)].kind = "dir"
       /\ \/ p[Len(p)] = ".gitignore" /\ fs[Parent(p)].marker # "none"
          \/ p[Len(p)] \in Names /\ fs[Parent(p)].ents[p[Len(p)]] = "file"

PathExists(p) == IsDir(p) \/ IsFile(p)

\* Path::read_dir(..).is_ok()
ReadDirOk(p) == p \in StoreLocs /\ fs[p].kind = "dir" /\ fs[p].readable

\* fs::canonicalize: ".." resolved, and the path must exist.
Canonicalize(p) ==
    LET q == Normalize(<<>>, p) IN
    IF PathExists(q) THEN Some(q) ELSE None

----------------------------------------------------------------------------
(* VenvStore (src/src/store/venv_store.rs)                                 *)

RECURSIVE WalkUpNoReadCheck(_)
\* The loop of find_local_venv_dirs as it would be without the read_dir test.
WalkUpNoReadCheck(dir) ==
    LET meowda_venvs == MeowdaVenvs(dir)
        here == IF PathExists(meowda_venvs) /\ IsDir(meowda_venvs)
                THEN <<meowda_venvs>>
                ELSE <<>>
    IN  IF HasParent(dir) THEN here \o WalkUpNoReadCheck(Parent(dir)) ELSE here

RECURSIVE WalkUp(_)
\* The loop of find_local_venv_dirs, from current_dir upward to the root.
WalkUp(dir) ==
    LET meowda_venvs == MeowdaVenvs(dir)
        here == IF /\ PathExists(meowda_venvs)
                   /\ IsDir(meowda_venvs)
                   /\ ReadDirOk(meowda_venvs)
                THEN <<meowda_venvs>>
                ELSE <<>>
    IN  IF HasParent(dir) THEN here \o WalkUp(Parent(dir)) ELSE here

find_local_venv_dirs(e) == WalkUp(e.cwd)

local_path(e) ==
    IF VarNonEmpty(e.localVar)
    THEN PathAbsolute(e.cwd, e.localVar)
    ELSE LET local_dirs == find_local_venv_dirs(e) IN
         IF local_dirs # <<>>
         THEN Head(local_dirs)
         ELSE MeowdaVenvs(e.cwd)

global_path(e) ==
    IF VarNonEmpty(e.globalVar)
    THEN PathAbsolute(e.cwd, e.globalVar)
    ELSE GlobalDefault

Scopes == {"Local", "Global"}

\* detect_path: the store's path for a scope ("None" is Option::None).
detect_path(e, scope) ==
    IF scope = "Local" THEN local_path(e) ELSE global_path(e)

\* VenvStore::create: the store is its path.
VenvStoreCreate(e, scope) == detect_path(e, scope)

\* VenvStore::new, as the backend calls it: the store of the scope the
\* invocation asks for.
VenvStoreNew(e) == VenvStoreCreate(e, e.scope)

\* is_ready as it would be without the test for the marker file.
is_ready_dir_only(path) == PathExists(path) /\ IsDir(path)

is_ready(path) ==
    PathExists(path) /\ IsDir(path) /\ PathExists(Join(path, ".gitignore"))

\* exists as it would be without the test for MEOWDA_LOCAL_VENV_DIR.
exists_ignoring_override(e, path, name) ==
    IF EndsWith(path, <<".meowda", "venvs">>)
    THEN LET local_dirs == find_local_venv_dirs(e) IN
         \E i \in 1..Len(local_dirs) : PathExists(Join(local_dirs[i], name))
    ELSE PathExists(Join(path, name))

\* VenvStore::exists
exists(e, path, name) ==
    IF VarNonEmpty(e.localVar)
    THEN PathExists(Join(path, name))
    ELSE IF EndsWith(path, <<".meowda", "venvs">>)
         THEN LET local_dirs == find_local_venv_dirs(e) IN
              \E i \in 1..Len(local_dirs) : PathExists(Join(local_dirs[i], name))
         ELSE PathExists(Join(path, name))

RECURSIVE FirstWith(_, _)
\* The for loop of find_env_path: the first directory of dirs that has name.
FirstWith(dirs, name) ==
    IF dirs = <<>> THEN None
    ELSE IF PathExists(Join(Head(dirs), name))
         THEN Some(Join(Head(dirs), name))
         ELSE FirstWith(Tail(dirs), name)

find_env_path(e, path, name) ==
    IF VarNonEmpty(e.localVar)
    THEN IF PathExists(Join(path, name)) THEN Some(Join(path, name)) ELSE None
    ELSE IF EndsWith(path, <<".meowda", "venvs">>)
         THEN FirstWith(find_local_venv_dirs(e), name)
         ELSE IF PathExists(Join(path, name)) THEN Some(Join(path, name)) ELSE None

all_paths(e, path) ==
    IF VarNonEmpty(e.localVar)
    THEN <<path>>
    ELSE IF EndsWith(path, <<".meowda", "venvs">>)
         THEN find_local_venv_dirs(e)
         ELSE <<path>>

\* VenvStore::contains
store_contains(path, p) == StartsWith(p, path)

----------------------------------------------------------------------------
(* FileLock (crate::store::file_lock), the lock file of a store            *)

\* VenvStore::lock: the lock file is <path>/.lock.
LockPath(path) == Join(path, ".lock")

LockFiles == {LockPath(l) : l \in StoreLocs}

\* FileLock::acquire can take the lock file f: its directory exists and no
\* process holds it. A caller that cannot take it waits.
LockFree(f) == lock[f] = {}

\* Dropping the FileLock handles process p holds.
Released(p) == [f \in LockFiles |-> lock[f] \ {p}]

----------------------------------------------------------------------------
(* VenvBackend (src/src/backend.rs)                                        *)

\* VIRTUAL_ENV: unset, an environment of a local store, or a path that leaves
\* the nearest local store again through "..".
VirtualEnvVals ==
    {VarUnset} \cup
    {VarAbs(Join(l, "x")) : l \in LocalLocs} \cup
    {VarAbs(Join(Join(MeowdaVenvs(DeepDir), ".."), "x"))}

\* detect_current_venv
detect_current_venv(cwd, v) ==
    IF v.set THEN Some(PathAbsolute(cwd, v)) ELSE None

\* A process: where it is (pc), the operation it runs (op, "locked" until the
\* operation's own code starts), the operation's arguments and VIRTUAL_ENV,
\* the store it resolved, and what the operation has found and done so far.
Idle ==
    [pc |-> "idle", op |-> "none", name |-> "x", clear |-> FALSE,
     venv |-> VarUnset, store |-> <<>>, was_ready |-> TRUE, res |-> "none",
     existed |-> FALSE,
     tool |-> 0, out |-> "none", listed |-> {}, active |-> {}]

\* Processes are launched in the order of their numbers.
CanStart(p) ==
    /\ proc[p].pc = "idle"
    /\ \A q \in Procs : q < p => proc[q].pc # "idle"

\* Return as it would be if the lock were released by hand at the end of the
\* successful path only: an error return keeps it.
ReturnErrLeak(p, r, res) ==
    /\ proc' = [proc EXCEPT ![p] = [r EXCEPT !.pc = "done", !.res = res]]
    /\ lock' = IF res = "ok" THEN Released(p) ELSE lock

\* The operation returns res: its lock guard, if it holds one, is dropped. The
\* process keeps the result.
Return(p, r, res) ==
    /\ proc' = [proc EXCEPT ![p] = [r EXCEPT !.pc = "done", !.res = res]]
    /\ lock' = Released(p)

\* get_venv_store, up to the readiness check: VenvStore::new and is_ready.
\* A ready store goes on to the lock (dir() returns it), another one to init().
GetVenvStore(p, op) ==
    LET store == VenvStoreNew(env)
        r == [Idle EXCEPT !.op = op, !.store = store,
                          !.was_ready = is_ready(store)]
    IN  /\ UNCHANGED <<fs, env, sq>>
        /\ IF ~is_ready(store)
           THEN /\ proc' = [proc EXCEPT ![p] = [r EXCEPT !.pc = "init_dir"]]
                /\ UNCHANGED lock
           ELSE IF op = "dir"
           THEN Return(p, r, "ok")
           ELSE /\ proc' = [proc EXCEPT ![p] = [r EXCEPT !.pc = "lock"]]
                /\ UNCHANGED lock

\* create, remove, list, install or uninstall is called. Each starts with
\* get_venv_store and the lock; which one it is shows after the lock.
Begin(p) ==
    /\ CanStart(p)
    /\ GetVenvStore(p, "locked")

\* dir: get_venv_store, and the store's path is returned.
Dir(p) ==
    /\ CanStart(p)
    /\ GetVenvStore(p, "dir")

\* fs::create_dir_all(path): the directory and its parents are made if absent.
create_dir_all(f, path) ==
    IF f[path].kind = "absent"
    THEN [f EXCEPT ![path] = [AbsentLoc EXCEPT !.kind = "dir"]]
    ELSE f

\* create_marker as it would be with create(true).truncate(true) in place of
\* create_new(true): the marker is written again on every call.
create_marker_truncate(f, path) == [f EXCEPT ![path].marker = "star"]

\* OpenOptions::new().write(true).create_new(true).open(<path>/.gitignore) and
\* write_all(b"*"): an existing marker is left as it is.
create_marker(f, path) ==
    IF f[path].marker = "none"
    THEN [f EXCEPT ![path].marker = "star"]
    ELSE f

\* VenvStore::init as one call: create_dir_all(&self.path)?, then the marker
\* file. The filesystem after the call and whether it returned Ok.
init(f, path) ==
    IF f[path].kind = "file"
    THEN [fs |-> f, ok |-> FALSE]
    ELSE [fs |-> create_marker(create_dir_all(f, path), path), ok |-> TRUE]

\* VenvStore::init, first half: create_dir_all(&self.path)?, which fails when
\* a file is in the way.
InitDir(p) ==
    LET r == proc[p] IN
    /\ r.pc = "init_dir"
    /\ UNCHANGED <<env, sq>>
    /\ IF fs[r.store].kind = "file"
       THEN /\ Return(p, r, "init_failed")
            /\ UNCHANGED fs
       ELSE /\ fs' = create_dir_all(fs, r.store)
            /\ proc' = [proc EXCEPT ![p].pc = "init_marker"]
            /\ UNCHANGED lock

\* InitMarker as it would be if only a store found ready were locked: a store
\* that had to be initialized goes on without the lock.
InitMarkerSkipLock(p) ==
    LET r == proc[p] IN
    /\ r.pc = "init_marker"
    /\ UNCHANGED <<env, sq>>
    /\ IF fs[r.store].kind # "dir"
       THEN /\ Return(p, r, "init_failed")
            /\ UNCHANGED fs
       ELSE /\ fs' = create_marker(fs, r.store)
            /\ IF r.op = "dir"
               THEN Return(p, r, "ok")
               ELSE /\ proc' = [proc EXCEPT ![p].pc = "locked"]
                    /\ UNCHANGED lock

\* InitMarker as it would be if create_new's AlreadyExists error were returned
\* like any other error: the marker file must be made by this very call.
InitMarkerExclusive(p) ==
    LET r == proc[p] IN
    /\ r.pc = "init_marker"
    /\ UNCHANGED <<env, sq>>
    /\ IF fs[r.store].kind # "dir" \/ fs[r.store].marker # "none"
       THEN /\ Return(p, r, "init_failed")
            /\ UNCHANGED fs
       ELSE /\ fs' = create_marker(fs, r.store)
            /\ IF r.op = "dir"
               THEN Return(p, r, "ok")
               ELSE /\ proc' = [proc EXCEPT ![p].pc = "lock"]
                    /\ UNCHANGED lock

\* VenvStore::init, second half: the marker file, created only if absent. Then
\* get_venv_store returns the store.
InitMarker(p) ==
    LET r == proc[p] IN
    /\ r.pc = "init_marker"
    /\ UNCHANGED <<env, sq>>
    /\ IF fs[r.store].kind # "dir"
       THEN /\ Return(p, r, "init_failed")
            /\ UNCHANGED fs
       ELSE /\ fs' = create_marker(fs, r.store)
            /\ IF r.op = "dir"
               THEN Return(p, r, "ok")
               ELSE /\ proc' = [proc EXCEPT ![p].pc = "lock"]
                    /\ UNCHANGED lock

\* Lock as it would be with the guard bound to _ and so dropped at once: the
\* lock is waited for, but not held afterwards.
LockDroppedAtOnce(p) ==
    LET r == proc[p]
        f == LockPath(r.store)
    IN  /\ r.pc = "lock"
        /\ UNCHANGED <<fs, env, sq>>
        /\ IF fs[r.store].kind # "dir"
           THEN Return(p, r, "lock_failed")
           ELSE /\ LockFree(f)
                /\ UNCHANGED lock
                /\ proc' = [proc EXCEPT ![p].pc = "locked"]

\* let _lock = store.lock().await?: waits for the lock file, then holds it to
\* the end of the operation.
Lock(p) ==
    LET r == proc[p]
        f == LockPath(r.store)
    IN  /\ r.pc = "lock"
        /\ UNCHANGED <<fs, env, sq>>
        /\ IF fs[r.store].kind # "dir"
           THEN Return(p, r, "lock_failed")
           ELSE /\ LockFree(f)
                /\ lock' = [lock EXCEPT ![f] = @ \cup {p}]
                /\ proc' = [proc EXCEPT ![p].pc = "locked"]

\* fs::remove_dir_all(path/name) succeeds on a directory; on a missing entry
\* or a regular file it is an error and nothing is removed.
remove_dir_all_ok(f, path, name) == f[path].ents[name] = "dir"

\* remove_dir_all as it would be if it were given the store's path instead of
\* the environment's: every environment of the store goes.
remove_dir_all_store(f, path, name) ==
    [f EXCEPT ![path].ents = [n \in Names |-> "none"]]

remove_dir_all(f, path, name) == [f EXCEPT ![path].ents[name] = "none"]

\* Create as it would be if an existing environment were always cleared,
\* whatever the clear flag says.
CreateAlwaysClear(p) ==
    /\ proc[p].pc = "locked"
    /\ UNCHANGED <<fs, env, sq>>
    /\ \E name \in Names, clear \in BOOLEAN :
          LET found == exists(env, proc[p].store, name)
              r == [proc[p] EXCEPT !.op = "create", !.name = name,
                                   !.clear = clear, !.existed = found]
          IN  /\ proc' = [proc EXCEPT ![p] =
                     [r EXCEPT !.pc = IF found THEN "remove" ELSE "tool"]]
              /\ UNCHANGED lock

\* create(name, python, clear), lines 71-77: the existence check.
Create(p) ==
    /\ proc[p].pc = "locked"
    /\ UNCHANGED <<fs, env, sq>>
    /\ \E name \in Names, clear \in BOOLEAN :
          LET found == exists(env, proc[p].store, name)
              r == [proc[p] EXCEPT !.op = "create", !.name = name,
                                   !.clear = clear, !.existed = found]
          IN  IF found /\ ~clear
              THEN Return(p, r, "already_exists")
              ELSE /\ proc' = [proc EXCEPT ![p] =
                          [r EXCEPT !.pc = IF found THEN "remove" ELSE "tool"]]
                   /\ UNCHANGED lock

\* remove(name), lines 102-104: the existence check.
Remove(p) ==
    /\ proc[p].pc = "locked"
    /\ UNCHANGED <<fs, env, sq>>
    /\ \E name \in Names :
          LET found == exists(env, proc[p].store, name)
              r == [proc[p] EXCEPT !.op = "remove", !.name = name,
                                   !.existed = found]
          IN  IF ~found
              THEN Return(p, r, "does_not_exist")
              ELSE /\ proc' = [proc EXCEPT ![p] = [r EXCEPT !.pc = "remove"]]
                   /\ UNCHANGED lock

\* remove_venv as it would be if it removed the environment where find_env_path
\* finds it, which can be a shadow store.
RemoveVenvWhereFound(p) ==
    LET r == proc[p]
        found == find_env_path(env, r.store, r.name)
        target == IF found.some THEN Parent(found.val) ELSE r.store
    IN
    /\ r.pc = "remove"
    /\ UNCHANGED <<env, sq>>
    /\ IF ~remove_dir_all_ok(fs, target, r.name)
       THEN /\ Return(p, r, "remove_failed")
            /\ UNCHANGED fs
       ELSE /\ fs' = remove_dir_all(fs, target, r.name)
            /\ IF r.op = "remove"
               THEN Return(p, r, "ok")
               ELSE /\ proc' = [proc EXCEPT ![p].pc = "tool"]
                    /\ UNCHANGED lock

\* remove_venv: remove_dir_all(store.path().join(name)), called by create with
\* clear and by remove.
RemoveVenv(p) ==
    LET r == proc[p] IN
    /\ r.pc = "remove"
    /\ UNCHANGED <<env, sq>>
    /\ IF ~remove_dir_all_ok(fs, r.store, r.name)
       THEN /\ Return(p, r, "remove_failed")
            /\ UNCHANGED fs
       ELSE /\ fs' = remove_dir_all(fs, r.store, r.name)
            /\ IF r.op = "remove"
               THEN Return(p, r, "ok")
               ELSE /\ proc' = [proc EXCEPT ![p].pc = "tool"]
                    /\ UNCHANGED lock

\* What one run of the external tool can end as: exit status 0, a nonzero exit
\* status, or a failure to start it.
ToolOutcomes == {"ok", "nonzero", "spawn"}

ToolResult(out) ==
    IF out = "ok" THEN "ok" ELSE IF out = "nonzero" THEN "tool_failed"
    ELSE "spawn_failed"

\* create, lines 78-97: uv venv <store>/<name> --python <python> --seed. A run
\* that exits with success has made the directory; a failed run may have made
\* it (partial) or not.
CreateTool(p) ==
    LET r == proc[p] IN
        /\ r.pc = "tool" /\ r.op = "create"
        /\ UNCHANGED <<env, sq>>
        /\ \E out \in ToolOutcomes, partial \in BOOLEAN :
              /\ out = "ok" => partial
              /\ out = "spawn" => ~partial
              /\ fs' = IF partial /\ fs[r.store].ents[r.name] = "none"
                       THEN [fs EXCEPT ![r.store].ents[r.name] = "dir"]
                       ELSE fs
              /\ Return(p, [r EXCEPT !.tool = @ + 1, !.out = out],
                        ToolResult(out))

\* The lock file of the store at path is on disk: a process holds it.
LockFileExists(path) == lock[LockPath(path)] # {}

\* The file names Path::read_dir yields for a store directory: the
\* environments and plain files in it, the marker file and the lock file.
ReadDir(path) ==
    {n \in Names : fs[path].ents[n] # "none"}
        \cup (IF fs[path].marker # "none" THEN {".gitignore"} ELSE {})
        \cup (IF LockFileExists(path) THEN {".lock"} ELSE {})

\* list as it would be without the is_dir test on the entries.
ListNoDirFilter(p) ==
    /\ proc[p].pc = "locked"
    /\ UNCHANGED <<fs, env, sq>>
    /\ \E venv \in VirtualEnvVals :
          LET r == [proc[p] EXCEPT !.op = "list", !.venv = venv]
              current_venv == detect_current_venv(env.cwd, venv)
              entries == ReadDir(r.store)
              is_active(n) ==
                  /\ current_venv.some
                  /\ Canonicalize(Join(r.store, n)) =
                         Canonicalize(current_venv.val)
          IN  IF ~ReadDirOk(r.store)
              THEN Return(p, r, "read_dir_failed")
              ELSE Return(p, [r EXCEPT !.listed = entries,
                                       !.active = {n \in entries : is_active(n)}],
                          "ok")

\* list, lines 112-142: read_dir of the store's path; an entry is listed when
\* it is a directory, and active when its canonical path is that of VIRTUAL_ENV.
List(p) ==
    /\ proc[p].pc = "locked"
    /\ UNCHANGED <<fs, env, sq>>
    /\ \E venv \in VirtualEnvVals :
          LET r == [proc[p] EXCEPT !.op = "list", !.venv = venv]
              current_venv == detect_current_venv(env.cwd, venv)
              entries == {n \in ReadDir(r.store) : IsDir(Join(r.store, n))}
              is_active(n) ==
                  /\ current_venv.some
                  /\ Canonicalize(Join(r.store, n)) =
                         Canonicalize(current_venv.val)
          IN  IF ~ReadDirOk(r.store)
              THEN Return(p, r, "read_dir_failed")
              ELSE Return(p, [r EXCEPT !.listed = entries,
                                       !.active = {n \in entries : is_active(n)}],
                          "ok")

\* VenvBackend::contains: the store is resolved again by get_venv_store (and
\* initialized if it is not ready), and the path is tested against its path.
\* The filesystem after the call, whether the call failed, and its answer.
backend_contains(path) ==
    LET store == VenvStoreNew(env)
        failed == ~is_ready(store) /\ fs[store].kind = "file"
        after == IF is_ready(store) \/ failed THEN fs
                 ELSE create_marker(create_dir_all(fs, store), store)
    IN  [fs |-> after, failed |-> failed, ans |-> StartsWith(path, store)]

\* PipCheck as it would be if the contains check took the store's lock again:
\* the operation waits for the lock file it holds itself.
PipCheckRelock(p, op) ==
    /\ proc[p].pc = "locked"
    /\ UNCHANGED <<fs, env, sq>>
    /\ \E venv \in VirtualEnvVals :
          LET r == [proc[p] EXCEPT !.op = op, !.venv = venv]
              current_venv == detect_current_venv(env.cwd, venv)
          IN  IF ~PathExists(r.store)
              THEN Return(p, r, "no_store_dir")
              ELSE IF ~current_venv.some
              THEN Return(p, r, "no_active")
              ELSE /\ proc' = [proc EXCEPT ![p] = [r EXCEPT !.pc = "lock"]]
                   /\ UNCHANGED lock

\* install and uninstall, lines 149-161 and 179-191: the preconditions.
PipCheck(p, op) ==
    /\ proc[p].pc = "locked"
    /\ UNCHANGED <<env, sq>>
    /\ \E venv \in VirtualEnvVals :
          LET r == [proc[p] EXCEPT !.op = op, !.venv = venv]
              current_venv == detect_current_venv(env.cwd, venv)
              c == backend_contains(current_venv.val)
          IN  IF ~PathExists(r.store)
              THEN Return(p, r, "no_store_dir") /\ UNCHANGED fs
              ELSE IF ~current_venv.some
              THEN Return(p, r, "no_active") /\ UNCHANGED fs
              ELSE /\ fs' = c.fs
                   /\ IF c.failed
                      THEN Return(p, r, "init_failed")
                      ELSE IF ~c.ans
                      THEN Return(p, r, "not_managed")
                      ELSE /\ proc' = [proc EXCEPT ![p] = [r EXCEPT !.pc = "tool"]]
                           /\ UNCHANGED lock

Install(p) == PipCheck(p, "install")

Uninstall(p) == PipCheck(p, "uninstall")

\* PipTool as it would be with one more attempt after a run of the tool that
\* failed.
PipToolRetry(p) ==
    LET r == proc[p] IN
        /\ r.pc = "tool" /\ r.op \in {"install", "uninstall"}
        /\ UNCHANGED <<fs, env, sq>>
        /\ \E out \in ToolOutcomes :
              IF out # "ok" /\ r.tool = 0
              THEN /\ proc' = [proc EXCEPT ![p] =
                          [r EXCEPT !.tool = @ + 1, !.out = out]]
                   /\ UNCHANGED lock
              ELSE Return(p, [r EXCEPT !.tool = @ + 1, !.out = out],
                          ToolResult(out))

\* install and uninstall, lines 163-174 and 193-204: uv pip install/uninstall.
\* The tool is run once, and its outcome decides the result.
PipTool(p) ==
    LET r == proc[p] IN
        /\ r.pc = "tool" /\ r.op \in {"install", "uninstall"}
        /\ UNCHANGED <<fs, env, sq>>
        /\ \E out \in ToolOutcomes :
              Return(p, [r EXCEPT !.tool = @ + 1, !.out = out], ToolResult(out))

----------------------------------------------------------------------------
(* Initial states and steps of the backend operations                      *)

NoQuery ==
    [phase |-> "none", path |-> <<>>, name |-> "x", exists |-> FALSE,
     found |-> None, paths |-> <<>>, ready |-> FALSE, contained |-> {},
     walk |-> <<>>, inits |-> 0, res |-> "none"]

ReadyLoc(names) ==
    [kind |-> "dir", readable |-> TRUE, marker |-> "user",
     ents |-> [n \in Names |-> IF n \in names THEN "dir" ELSE "none"]]

\* The filesystems the processes start on: nothing exists yet; the local
\* stores exist and are ready, with y in the nearest one and x in either, both
\* or none of them; the same with the nearest one unreadable; a regular file
\* stands where the nearest one would be.
InitFS ==
    LET ready(c) ==
            [l \in StoreLocs |->
                IF l \notin LocalLocs THEN AbsentLoc
                ELSE ReadyLoc((IF l \in c THEN {"x"} ELSE {}) \cup
                              (IF l = MeowdaVenvs(DeepDir) THEN {"y"} ELSE {}))]
    IN  {[l \in StoreLocs |-> AbsentLoc]} \cup
        {ready(c) : c \in SUBSET LocalLocs} \cup
        {[ready(LocalLocs) EXCEPT ![MeowdaVenvs(DeepDir)].readable = FALSE]} \cup
        {[l \in StoreLocs |->
             IF l = MeowdaVenvs(DeepDir)
             THEN [AbsentLoc EXCEPT !.kind = "file"] ELSE AbsentLoc]}

\* Where the stores of the processes are resolved: the working directory, the
\* two override variables and the scope asked for.
StoreCases ==
    {[cwd |-> DeepDir, localVar |-> VarUnset, globalVar |-> VarUnset,
      scope |-> "Local"],
     [cwd |-> DeepDir, localVar |-> VarUnset, globalVar |-> VarUnset,
      scope |-> "Global"],
     [cwd |-> DeepDir, localVar |-> VarRel(<<".", ".meowda", "venvs">>),
      globalVar |-> VarUnset, scope |-> "Local"],
     [cwd |-> DeepDir, localVar |-> VarUnset,
      globalVar |-> VarAbs(MeowdaVenvs(<<>>)), scope |-> "Global"],
     [cwd |-> <<>>, localVar |-> VarUnset,
      globalVar |-> VarAbs(MeowdaVenvs(DeepDir)), scope |-> "Global"]}

Init ==
    /\ fs \in InitFS
    /\ env \in StoreCases
    /\ lock = [f \in LockFiles |-> {}]
    /\ proc = [p \in Procs |-> Idle]
    /\ sq = NoQuery

Next ==
    \E p \in Procs :
        \/ Begin(p)
        \/ Dir(p)
        \/ InitDir(p)
        \/ InitMarker(p)
        \/ Lock(p)
        \/ Create(p)
        \/ Remove(p)
        \/ RemoveVenv(p)
        \/ CreateTool(p)
        \/ List(p)
        \/ Install(p)
        \/ Uninstall(p)
        \/ PipTool(p)

Spec == Init /\ [][Next]_vars

\* The steps of an operation of process p once it has started.
Proceed(p) ==
    \/ InitDir(p)
    \/ InitMarker(p)
    \/ Lock(p)
    \/ Create(p)
    \/ Remove(p)
    \/ RemoveVenv(p)
    \/ CreateTool(p)
    \/ List(p)
    \/ Install(p)
    \/ Uninstall(p)
    \/ PipTool(p)

\* The processes are scheduled fairly and a run of the external tool ends: an
\* operation that can take a step does not wait forever. Whether and when an
\* operation is started is left open.
SpecLive == Spec /\ \A p \in Procs : WF_vars(Proceed(p))

----------------------------------------------------------------------------
(* A store looked up on a given filesystem                                 *)

\* The store directories the lookups run on: absent, a regular file, or a
\* directory, readable or not, in which x is absent, a directory or a file.
LookupLocs ==
    {AbsentLoc, [AbsentLoc EXCEPT !.kind = "file"]} \cup
    {[kind |-> "dir", readable |-> rd, marker |-> "star",
      ents |-> [n \in Names |-> IF n = "x" THEN k ELSE "none"]] :
        rd \in BOOLEAN, k \in EntKinds}

LookupFS ==
    {f \in [StoreLocs -> LookupLocs] :
        f[GlobalDefault].kind # "file" /\ f[GlobalDefault].readable}

\* The values of MEOWDA_LOCAL_VENV_DIR and MEOWDA_GLOBAL_VENV_DIR.
OverrideVals ==
    {VarUnset, VarEmpty, VarRel(<<".", ".meowda", "venvs">>)} \cup
    {VarAbs(l) : l \in StoreLocs}

LookupEnvs ==
    {[cwd |-> cwd, localVar |-> lv, globalVar |-> gv, scope |-> sc] :
        cwd \in Cwds, lv \in OverrideVals, gv \in OverrideVals, sc \in Scopes}

InitStore ==
    /\ fs \in LookupFS
    /\ env \in LookupEnvs
    /\ lock = [f \in LockFiles |-> {}]
    /\ proc = [p \in Procs |-> Idle]
    /\ sq = NoQuery

\* VenvStore::create(Some(scope))
StoreCreate ==
    /\ sq.phase = "none"
    /\ sq' = [sq EXCEPT !.phase = "store",
                        !.path = VenvStoreCreate(env, env.scope)]
    /\ UNCHANGED <<fs, env, lock, proc>>

\* The paths contains is asked about: an environment x in each place a store
\* can be.
Probes == {Join(l, "x") : l \in StoreLocs}

\* exists, find_env_path, all_paths, is_ready and contains of the store, and
\* the walk of find_local_venv_dirs, for a name.
StoreLookup(name) ==
    /\ sq.phase = "store"
    /\ sq' = [sq EXCEPT !.phase = "looked",
                        !.name = name,
                        !.exists = exists(env, sq.path, name),
                        !.found = find_env_path(env, sq.path, name),
                        !.paths = all_paths(env, sq.path),
                        !.ready = is_ready(sq.path),
                        !.contained =
                            {p \in Probes : store_contains(sq.path, p)},
                        !.walk = find_local_venv_dirs(env)]
    /\ UNCHANGED <<fs, env, lock, proc>>

NextStore ==
    \/ StoreCreate
    \/ \E name \in Names : StoreLookup(name)

SpecStore == InitStore /\ [][NextStore]_vars

----------------------------------------------------------------------------
(* A store initialized again and again                                     *)

\* How often init is called on one store.
MaxInits == 2

\* The store directories init starts from: absent, a regular file in the way,
\* or a directory without a marker, with the marker init writes, or with a
\* marker of the user's.
InitLocs ==
    {AbsentLoc, [AbsentLoc EXCEPT !.kind = "file"]} \cup
    {[AbsentLoc EXCEPT !.kind = "dir", !.marker = mk] : mk \in MarkerVals}

InitInit ==
    /\ fs \in [StoreLocs -> InitLocs]
    /\ env \in StoreCases
    /\ lock = [f \in LockFiles |-> {}]
    /\ proc = [p \in Procs |-> Idle]
    /\ sq = NoQuery

\* store.init()
StoreInit ==
    /\ sq.phase \in {"store", "inited"}
    /\ sq.inits < MaxInits
    /\ fs' = init(fs, sq.path).fs
    /\ sq' = [sq EXCEPT !.phase = "inited",
                        !.inits = @ + 1,
                        !.res = IF init(fs, sq.path).ok THEN "ok"
                                ELSE "init_failed"]
    /\ UNCHANGED <<env, lock, proc>>

NextInit ==
    \/ StoreCreate
    \/ StoreInit

SpecInit == InitInit /\ [][NextInit]_vars

\* ScopeResolver.resolve: the candidate paths of the store, the primary path
\* first.
Candidates(e) ==
    IF e.scope = "Global" THEN <<global_path(e)>>
    ELSE IF VarNonEmpty(e.localVar) THEN <<local_path(e)>>
    ELSE IF find_local_venv_dirs(e) # <<>> THEN find_local_venv_dirs(e)
    ELSE <<MeowdaVenvs(e.cwd)>>

----------------------------------------------------------------------------
(* Properties                                                              *)

\* The candidates that have an entry named n, by index.
Having(e, n) ==
    {i \in 1..Len(Candidates(e)) : PathExists(Join(Candidates(e)[i], n))}

Least(S) == CHOOSE i \in S : \A j \in S : i <= j

\* Process p holds the lock of the store it works on.
HoldsLock(p) ==
    proc[p].pc # "idle" /\ p \in lock[LockPath(proc[p].store)]

\* Process p is between the acquisition of the lock and its return.
InCritical(p) == proc[p].pc \in {"locked", "remove", "tool"}

\* C1: at most one process holds the lock of a primary path, and of the
\* processes working on the same primary path at most one is past the
\* acquisition of its lock: any other one is still waiting for it.
C1_MutualExclusion ==
    /\ \A f \in LockFiles : Cardinality(lock[f]) <= 1
    /\ \A p \in Procs : InCritical(p) => HoldsLock(p)
    /\ \A p, q \in Procs :
          p # q /\ InCritical(p) /\ InCritical(q) =>
              proc[p].store # proc[q].store

\* One process has run its checks under the lock and is at the external tool,
\* while another one waits for the same lock.
C1_HolderAndWaiter ==
    \E p, q \in Procs :
        /\ p # q
        /\ proc[p].pc = "tool" /\ HoldsLock(p)
        /\ proc[q].pc = "lock" /\ proc[q].store = proc[p].store

\* The step is one of process p.
Acts(p) == proc'[p] # proc[p]

\* The step creates a store directory or a marker file.
StoreInitStep ==
    \E l \in StoreLocs : fs'[l].kind # fs[l].kind \/ fs'[l].marker # fs[l].marker

\* The step removes, creates or changes an environment directory.
EnvStep == \E l \in StoreLocs : fs'[l].ents # fs[l].ents

\* The step is the enumeration of list by process p.
ListStep(p) == proc[p].pc = "locked" /\ proc'[p].op = "list"

\* C2, as stated: every step that creates the primary directory or its marker
\* file, removes an environment, creates one by the external tool or
\* enumerates for list is taken by a process that holds the lock of its store.
C2_AllStepsUnderLock ==
    [][\A p \in Procs :
          Acts(p) /\ (StoreInitStep \/ EnvStep \/ ListStep(p)) => HoldsLock(p)]_vars

\* C2, as the code has it: the removal of an environment, its creation by the
\* external tool and the enumeration of list are steps of a process that holds
\* the lock of its store, while get_venv_store creates the primary directory
\* and its marker file before the lock is acquired, so without it.
C2_EnvStepsUnderLock ==
    [][\A p \in Procs :
          /\ Acts(p) /\ (EnvStep \/ ListStep(p)) => HoldsLock(p)
          /\ Acts(p) /\ proc[p].pc \in {"init_dir", "init_marker"} =>
                 ~HoldsLock(p) /\ ~EnvStep]_vars

\* One process is at the external tool under the lock while another one, which
\* has created the store directory, is about to create the marker file.
C2_ToolUnderLockInitOutside ==
    \E p, q \in Procs :
        /\ p # q
        /\ proc[p].pc = "tool" /\ proc[p].op = "create" /\ HoldsLock(p)
        /\ proc[q].pc = "init_marker" /\ proc[q].store = proc[p].store
        /\ ~HoldsLock(q)

\* C3: a process whose operation has returned, with whatever result, holds no
\* lock.
C3_NoLockAfterReturn ==
    \A p \in Procs :
        proc[p].pc = "done" => \A f \in LockFiles : p \notin lock[f]

\* An operation has returned the error of the external tool, another one a
\* precondition error, both after having acquired the lock.
C3_ReturnedWithErrors ==
    \E p, q \in Procs :
        /\ proc[p].pc = "done" /\ proc[p].res = "tool_failed"
        /\ proc[q].pc = "done"
        /\ proc[q].res \in {"already_exists", "does_not_exist", "no_active"}

\* The store at path was initialized by an operation of this behaviour: it was
\* not there at first, and so no name was in it.
FreshStore(path) == fs[path].marker = "star"

\* C4: two create calls with the same name on the same store do not
\* interleave: while one is at its removal or at the external tool, the other
\* one is not past the lock; and a call with clear = false that takes its turn
\* after a call with clear = false, which found the name absent in a store
\* that had nothing at first and whose tool run succeeded, finds the result of
\* that call and fails with "already exists".
C4_ConcurrentCreateSerialized ==
    [][\A p, q \in Procs :
          p # q /\ proc[p].op = "create" /\ proc[p].store = proc[q].store =>
            /\ proc[p].pc \in {"remove", "tool"} => ~InCritical(q)
            /\ ( /\ proc[p].pc = "done" /\ proc[p].res = "ok"
                 /\ ~proc[p].clear /\ ~proc[p].existed
                 /\ FreshStore(proc[p].store)
                 /\ IsDir(Join(proc[p].store, proc[p].name))
                 /\ proc[q].pc = "locked" /\ proc'[q].op = "create"
                 /\ proc'[q].name = proc[p].name /\ ~proc'[q].clear )
               => proc'[q].pc = "done" /\ proc'[q].res = "already_exists"]_vars

\* C5: a create call with clear = false on a name for which exists holds
\* returns "already exists" from its check, without a run of the external tool
\* and with the filesystem as it was.
C5_ExistingNameRejected ==
    [][\A p \in Procs :
          ( /\ proc[p].pc = "locked" /\ proc'[p].op = "create"
            /\ ~proc'[p].clear
            /\ exists(env, proc[p].store, proc'[p].name) )
          => /\ proc'[p].pc = "done"
             /\ proc'[p].res = "already_exists"
             /\ proc'[p].tool = 0
             /\ fs' = fs]_vars

\* A create call with clear = false has returned "already exists" for a name
\* it found existing.
C5_RejectedCreate ==
    \E p \in Procs :
        /\ proc[p].pc = "done" /\ proc[p].op = "create"
        /\ ~proc[p].clear /\ proc[p].existed
        /\ proc[p].res = "already_exists" /\ proc[p].tool = 0

\* The directory tree of the environment named n: its entry in the
\* lowest-index candidate that has one.
EnvTree(e, n) == Join(Candidates(e)[Least(Having(e, n))], n)

\* C6: in a create call with clear = true on a name for which exists holds,
\* the removal succeeds and leaves the prior directory tree of the environment
\* gone before the external tool is run, and the call fails only if the tool
\* does.
C6_ClearReplacesExisting ==
    [][\A p \in Procs :
          proc[p].pc = "remove" /\ proc[p].op = "create" /\ Acts(p) =>
            /\ proc'[p].pc = "tool"
            /\ Having(env, proc[p].name) # {} =>
                   fs'[Parent(EnvTree(env, proc[p].name))].ents[proc[p].name]
                       = "none"]_vars

\* C7: a remove call on a name for which exists holds deletes the directory
\* tree of the environment and returns success; a remove call on a name that
\* no candidate has returns "does not exist" and leaves the filesystem as it
\* was.
C7_RemoveDeletesOrRejects ==
    [][\A p \in Procs :
          /\ proc[p].pc = "remove" /\ proc[p].op = "remove" /\ Acts(p) =>
               /\ proc'[p].pc = "done" /\ proc'[p].res = "ok"
               /\ Having(env, proc[p].name) # {} =>
                      fs'[Parent(EnvTree(env, proc[p].name))].ents[proc[p].name]
                          = "none"
          /\ ( /\ proc[p].pc = "locked" /\ proc'[p].op = "remove"
               /\ Having(env, proc'[p].name) = {} )
             => /\ proc'[p].pc = "done"
                /\ proc'[p].res = "does_not_exist"
                /\ fs' = fs]_vars

\* The canonical form of VIRTUAL_ENV is inside one of the candidate paths.
InCandidate(e, v) ==
    \E i \in 1..Len(Candidates(e)) :
        StartsWith(Normalize(<<>>, PathAbsolute(e.cwd, v)), Candidates(e)[i])

\* C10: install and uninstall run the external tool only with an active
\* environment whose canonical path is inside a candidate path of the store;
\* without an active environment, or with one outside every candidate path,
\* they fail and the tool is not run.
C10_PipOnlyInManagedEnv ==
    \A p \in Procs :
        proc[p].op \in {"install", "uninstall"} =>
          /\ proc[p].pc = "tool" \/ proc[p].tool > 0 =>
                 proc[p].venv.set /\ InCandidate(env, proc[p].venv)
          /\ proc[p].pc = "done" /\
             ~(proc[p].venv.set /\ InCandidate(env, proc[p].venv)) =>
                 proc[p].res # "ok" /\ proc[p].tool = 0

\* C8: for every store and every name n, exists(n) is true if and only if at
\* least one path of the store's candidate set has a subdirectory named n.
C8_ExistsIffSubdirInCandidate ==
    sq.phase = "looked" =>
        (sq.exists <=>
            \E i \in 1..Len(Candidates(env)) :
                IsDir(Join(Candidates(env)[i], sq.name)))

\* C9: find_env_path(n) is the path of n in the lowest-index candidate that
\* contains n, None if and only if no candidate contains n, and Some exactly
\* when exists(n) is true.
C9_FindEnvPathNearestCandidate ==
    sq.phase = "looked" =>
        LET has == Having(env, sq.name) IN
        /\ sq.found.some <=> has # {}
        /\ has # {} =>
              sq.found = Some(Join(Candidates(env)[Least(has)], sq.name))
        /\ sq.found.some <=> sq.exists

\* Path p is inside one of the candidate paths of the store.
Descendant(e, p) ==
    \E i \in 1..Len(Candidates(e)) : StartsWith(p, Candidates(e)[i])

\* C11: contains(path) is true if and only if path is a descendant of the
\* primary path or of a shadow path of the store.
C11_ContainsAnyCandidate ==
    sq.phase = "looked" =>
        \A p \in Probes : p \in sq.contained <=> Descendant(env, p)

\* C12: init on a primary path that is absent, a directory without marker or
\* a directory with a marker returns Ok, the first time and every further
\* time; it leaves the path a directory with a marker, leaves a marker that
\* was there as it was, touches nothing else, and from the second call on
\* changes nothing at all.
C12_InitIdempotent ==
    [][sq'.inits = sq.inits + 1 /\ fs[sq.path].kind # "file" =>
          /\ sq'.res = "ok"
          /\ fs'[sq.path].kind = "dir" /\ fs'[sq.path].marker # "none"
          /\ fs[sq.path].marker # "none" =>
                 fs'[sq.path].marker = fs[sq.path].marker
          /\ fs'[sq.path].ents = fs[sq.path].ents
          /\ \A l \in StoreLocs \ {sq.path} : fs'[l] = fs[l]
          /\ sq.inits >= 1 => fs' = fs]_vars

\* init has been called twice on a store whose marker file was the user's,
\* and the marker is still the user's.
C12_InitTwiceKeepsMarker ==
    /\ sq.phase = "inited" /\ sq.inits = 2 /\ sq.res = "ok"
    /\ fs[sq.path].marker = "user"

\* The store directory at l exists and has its marker file.
Ready(l) == fs[l].kind = "dir" /\ fs[l].marker # "none"

\* C13: is_ready holds of a path exactly when the path is a directory with
\* the marker file in it; an operation that finds its store not ready goes to
\* init, a successful init leaves the store ready, and the lock is acquired on
\* a ready store only.
C13_ReadyBeforeLock ==
    [][/\ \A l \in StoreLocs : is_ready(l) <=> Ready(l)
       /\ \A p \in Procs :
             /\ proc[p].pc = "idle" /\ proc'[p].pc # "idle" =>
                    (proc'[p].pc = "init_dir" <=> ~Ready(proc'[p].store))
             /\ ( /\ proc[p].pc = "init_marker" /\ Acts(p)
                  /\ proc'[p].res # "init_failed" )
                => fs'[proc[p].store].kind = "dir" /\
                   fs'[proc[p].store].marker # "none"
             /\ proc[p].pc = "lock" /\ proc'[p].pc = "locked" =>
                    is_ready(proc[p].store)]_vars

\* A process holds the lock of a store that did not exist at first and that
\* an init of this behaviour made ready.
C13_LockedAfterInit ==
    \E p \in Procs :
        /\ proc[p].pc = "locked" /\ HoldsLock(p)
        /\ fs[proc[p].store].marker = "star"

\* C14: with MEOWDA_LOCAL_VENV_DIR set and not empty, the path of a Local
\* store is that value made absolute, and exists, find_env_path and all_paths
\* look at that path only, whatever .meowda/venvs directories the walk from
\* the working directory would find.
C14_LocalOverrideOnly ==
    sq.phase = "looked" /\ env.scope = "Local" /\ VarNonEmpty(env.localVar) =>
        LET override ==
                IF env.localVar.abs THEN env.localVar.comps
                ELSE env.cwd \o DropDots(env.localVar.comps)
            there == PathExists(Join(override, sq.name))
        IN  /\ sq.path = override
            /\ sq.exists <=> there
            /\ sq.found = IF there THEN Some(Join(override, sq.name)) ELSE None
            /\ sq.paths = <<override>>

\* A Local store under the override has been asked for a name that it does
\* not have, while a directory of the walk, which is not the store, has it.
C14_OverrideHidesWalk ==
    /\ sq.phase = "looked" /\ env.scope = "Local" /\ VarNonEmpty(env.localVar)
    /\ ~sq.exists /\ ~sq.found.some
    /\ \E i \in 1..Len(sq.walk) :
           sq.walk[i] # sq.path /\ PathExists(Join(sq.walk[i], sq.name))

\* The directory l is <d>/.meowda/venvs for the working directory or one of
\* its ancestors d, and it is an existing, readable directory.
OnWalk(l) ==
    /\ \E d \in Cwds : StartsWith(env.cwd, d) /\ l = MeowdaVenvs(d)
    /\ fs[l].kind = "dir" /\ fs[l].readable

C17_OnlyPrimaryWritten ==
    [][/\ \A l \in StoreLocs :
             (fs'[l] # fs[l] \/ lock'[LockPath(l)] # lock[LockPath(l)]) =>
                 /\ l = Candidates(env)[1]
                 /\ \A i \in 2..Len(Candidates(env)) : Candidates(env)[i] # l
                 /\ \E p \in Procs : Acts(p) /\ proc[p].store = l
       /\ Candidates(env)' = Candidates(env)]_vars

\* A create or a remove has succeeded in a store that has a shadow path.
C17_WroteBesideShadow ==
    \E p \in Procs :
        /\ proc[p].pc = "done" /\ proc[p].op \in {"create", "remove"}
        /\ proc[p].res = "ok"
        /\ Len(Candidates(env)) >= 2
        /\ proc[p].store = Candidates(env)[1]

\* C18: all_paths returns the candidate list of the store: it is not empty,
\* its first element is path(), and the shadow paths follow, nearest first.
C18_AllPathsPrimaryFirst ==
    sq.phase = "looked" =>
        /\ sq.paths # <<>>
        /\ sq.paths = Candidates(env)
        /\ sq.paths[1] = sq.path

\* C19: an operation runs the external tool at most once. The step that runs
\* it is the operation's last: it returns success if the tool exited with
\* status 0 and an error if the tool exited with another status or could not
\* be started. No other step runs the tool.
C19_ToolRunOnceThenReturn ==
    [][\A p \in Procs :
          /\ proc[p].pc = "tool" /\ Acts(p) =>
                /\ proc[p].tool = 0 /\ proc'[p].tool = 1
                /\ proc'[p].pc = "done"
                /\ proc'[p].out \in ToolOutcomes
                /\ proc'[p].out = "ok" <=> proc'[p].res = "ok"
                /\ proc'[p].out = "nonzero" <=> proc'[p].res = "tool_failed"
                /\ proc'[p].out = "spawn" <=> proc'[p].res = "spawn_failed"
          /\ proc[p].pc # "tool" =>
                /\ proc'[p].tool = proc[p].tool
                /\ proc'[p].out = proc[p].out
          /\ proc'[p].tool <= 1]_vars

\* A create has returned the error of a tool that exited with a nonzero
\* status, and an install the error of a tool that could not be started, each
\* after one run.
C19_FailedAfterOneRun ==
    \E p, q \in Procs :
        /\ proc[p].pc = "done" /\ proc[p].op = "create"
        /\ proc[p].out = "nonzero" /\ proc[p].res = "tool_failed"
        /\ proc[p].tool = 1
        /\ proc[q].pc = "done" /\ proc[q].op = "install"
        /\ proc[q].out = "spawn" /\ proc[q].res = "spawn_failed"
        /\ proc[q].tool = 1

\* C20: every operation that has started returns; the lock of every store
\* is free again and again; and no operation waits for a lock file while it
\* holds it.
C20_EveryOperationReturns ==
    /\ \A p \in Procs :
          (proc[p].pc \notin {"idle", "done"}) ~> (proc[p].pc = "done")
    /\ []<>(\A f \in LockFiles : lock[f] = {})
    /\ [](\A p \in Procs : proc[p].pc = "lock" => ~HoldsLock(p))

\* One process waits for the lock while another one, which holds it, has
\* passed the checks of install and is at the external tool.
C20_WaitsForInstall ==
    \E p, q \in Procs :
        /\ proc[p].pc = "tool" /\ proc[p].op = "install" /\ HoldsLock(p)
        /\ proc[q].pc = "lock" /\ proc[q].store = proc[p].store

\* The step is one of process p in its create or remove, after the lock.
InCreateOrRemove(p) == Acts(p) /\ proc'[p].op \in {"create", "remove"}

\* The step leaves every environment directory with another name than the
\* one process p works on as it is, in every store directory, and what it
\* deletes, if anything, is <store of p>/<name>.
KeepsOtherEnvs(p) ==
    \A l \in StoreLocs : \A n \in Names :
        fs'[l].ents[n] # fs[l].ents[n] =>
            /\ l = proc[p].store
            /\ n = proc'[p].name

\* C21 as stated: create and remove, failed or not, change no environment
\* directory but <primary path>/<name>, and the marker file of the store is
\* after the call what it was before it: an operation that has returned did
\* not find the store without its marker and leave it with one.
C21_MarkerAsBefore ==
    /\ [][\A p \in Procs : InCreateOrRemove(p) => KeepsOtherEnvs(p)]_vars
    /\ [](\A p \in Procs :
            ( /\ proc[p].pc = "done" /\ proc[p].op \in {"create", "remove"}
              /\ ~proc[p].was_ready )
            => fs[proc[p].store].marker = "none")

\* C21, amended: the steps of create and remove under the lock change no
\* environment directory but <primary path>/<name> and touch no marker file
\* and no store directory; the store initialization that precedes the lock
\* changes no environment directory and no existing marker file, and creates
\* the store directory and the marker file where they are missing.
C21_FrameOfCreateRemove ==
    [][\A p \in Procs :
          /\ InCreateOrRemove(p) =>
                /\ KeepsOtherEnvs(p)
                /\ \A l \in StoreLocs :
                      fs'[l].marker = fs[l].marker /\ fs'[l].kind = fs[l].kind
          /\ Acts(p) /\ proc[p].pc \in {"init_dir", "init_marker"} =>
                \A l \in StoreLocs :
                   /\ fs'[l].ents = fs[l].ents
                   /\ fs[l].marker # "none" => fs'[l].marker = fs[l].marker
                   /\ fs'[l] # fs[l] => l = proc[p].store /\ ~proc[p].was_ready]_vars

\* A remove has failed because its environment does not exist, on a store
\* that was not ready when it was called and has its marker file now; the
\* environment another process has created there is in place.
C21_FailedRemoveMadeStore ==
    \E p, q \in Procs :
        /\ proc[p].pc = "done" /\ proc[p].op = "remove"
        /\ proc[p].res = "does_not_exist" /\ ~proc[p].was_ready
        /\ fs[proc[p].store].marker = "star"
        /\ proc[q].pc = "done" /\ proc[q].op = "create" /\ proc[q].res = "ok"
        /\ proc[q].store = proc[p].store /\ proc[q].name # proc[p].name
        /\ fs[proc[q].store].ents[proc[q].name] = "dir"

\* C22: the readiness check and init run without the lock, and any number of
\* processes may be in them on the same store at once. A store found not
\* ready is initialized; init does not fail unless a regular file stands at
\* the store's path; a marker file is created only where there is none, by
\* the init of one process, and an existing one is left as it is; and a
\* process that is past get_venv_store has a ready store.
C22_InitRaceSafe ==
    [][/\ \A p \in Procs :
             /\ proc[p].pc = "idle" /\ Acts(p) =>
                   /\ proc'[p].was_ready = is_ready(proc'[p].store)
                   /\ proc'[p].pc = "init_dir" <=> ~proc'[p].was_ready
                   /\ lock' = lock
             /\ proc[p].pc \in {"init_dir", "init_marker"} /\ Acts(p) =>
                   /\ \A f \in LockFiles : p \notin lock[f]
                   /\ lock' = lock
                   /\ fs[proc[p].store].kind # "file" =>
                          proc'[p].res # "init_failed"
             /\ proc'[p].pc \in {"lock", "locked", "remove", "tool"} =>
                   /\ fs'[proc'[p].store].kind = "dir"
                   /\ fs'[proc'[p].store].marker # "none"
       /\ \A l \in StoreLocs :
             fs'[l].marker # fs[l].marker =>
                 /\ fs[l].marker = "none"
                 /\ \E p \in Procs :
                       /\ proc[p].pc = "init_marker" /\ Acts(p)
                       /\ proc[p].store = l /\ ~proc[p].was_ready]_vars

\* Two processes found the same store not ready: one has initialized it and
\* holds its lock, the other is still in init, about to create the marker
\* file that exists by now.
C22_InitBesideLockHolder ==
    \E p, q \in Procs :
        /\ p # q /\ proc[p].store = proc[q].store
        /\ ~proc[p].was_ready /\ ~proc[q].was_ready
        /\ proc[p].pc = "locked" /\ HoldsLock(p)
        /\ proc[q].pc = "init_marker"
        /\ fs[proc[q].store].marker = "star"

====
